---- MODULE Spec2Model ----
(***************************************************************************)
(* Doctor service: the doctors table, the five request handlers of app.py  *)
(* and the slot generator.  A request handler that issues one statement    *)
(* against the store is one action; create_doctor issues a SELECT, then an *)
(* INSERT/COMMIT, then the SELECT of db.refresh before it answers, so it   *)
(* is three steps and other requests can run between them.                 *)
(***************************************************************************)
EXTENDS Integers, Sequences, FiniteSets, TLC

VARIABLES store,    \* rows of table "doctors", in insertion order
          session,  \* per worker: the create_doctor request it is serving:
                    \* <<>> none, <<doctor>> checked and not committed,
                    \* <<doctor, doctor_id>> committed and not answered
          today,    \* the calendar date of the server clock
          last      \* the most recent HTTP response, with its request

vars == <<store, session, today, last>>

-----------------------------------------------------------------------------
(* Bounds of the model *)

MaxDoctors == 2

(* Configuration of app.py *)

CLINIC_HOURS_START == 9
CLINIC_HOURS_END == 18
SLOT_DURATION_MINUTES == 30
LimitMin == 1
LimitMax == 100

-----------------------------------------------------------------------------
(* Calendar arithmetic of datetime.date / datetime.datetime.  A date is    *)
(* <<year, month, day>>; a datetime is [date, minute] with minute counted  *)
(* from midnight (seconds are always 0 here).                              *)

IsLeap(y) == (y % 4 = 0) /\ ((y % 100 # 0) \/ (y % 400 = 0))

DaysInMonth(y, m) ==
    IF m = 2 THEN (IF IsLeap(y) THEN 29 ELSE 28)
    ELSE IF m \in {4, 6, 9, 11} THEN 30 ELSE 31

NextDay(d) ==
    IF d[3] < DaysInMonth(d[1], d[2]) THEN <<d[1], d[2], d[3] + 1>>
    ELSE IF d[2] < 12 THEN <<d[1], d[2] + 1, 1>>
    ELSE <<d[1] + 1, 1, 1>>

RECURSIVE AddDays(_, _)
AddDays(d, n) == IF n = 0 THEN d ELSE AddDays(NextDay(d), n - 1)

\* date.__lt__
DateLT(a, b) ==
    \/ a[1] < b[1]
    \/ a[1] = b[1] /\ a[2] < b[2]
    \/ a[1] = b[1] /\ a[2] = b[2] /\ a[3] < b[3]

\* datetime.combine(date, datetime.min.time().replace(hour=h))
Combine(d, h) == [date |-> d, minute |-> h * 60]

\* datetime + timedelta(minutes=m)
AddMinutes(dt, m) ==
    LET total == dt.minute + m
    IN [date |-> AddDays(dt.date, total \div 1440), minute |-> total % 1440]

\* datetime.__lt__
DateTimeLT(a, b) ==
    DateLT(a.date, b.date) \/ (a.date = b.date /\ a.minute < b.minute)

Pad2(n) == IF n < 10 THEN "0" \o ToString(n) ELSE ToString(n)

\* datetime.strftime("%Y-%m-%dT%H:%M:%S"); %Y of the C library does not pad
Strftime(dt) ==
    ToString(dt.date[1]) \o "-" \o Pad2(dt.date[2]) \o "-" \o Pad2(dt.date[3])
    \o "T" \o Pad2(dt.minute \div 60) \o ":" \o Pad2(dt.minute % 60) \o ":00"

-----------------------------------------------------------------------------
(* datetime.strptime(s, "%Y-%m-%d").date().  The input is the query        *)
(* parameter as the sequence of its Unicode code points.  The format       *)
(* compiles to the regex                                                   *)
(*   (\d\d\d\d)-(1[0-2]|0[1-9]|[1-9])-(3[0-1]|[1-2]\d|0[1-9]|[1-9]| [1-9])  *)
(* matched at the start; text left over or a date that does not exist      *)
(* raises ValueError.  On str, \d is any Unicode decimal digit (category   *)
(* Nd) and int() takes its digit value; the bracket classes are ASCII.     *)

\* code points of the ASCII characters the requests use
Ascii ==
    { <<" ", 32>>, <<"-", 45>>, <<"/", 47>>, <<"T", 84>>,
      <<"0", 48>>, <<"1", 49>>, <<"2", 50>>, <<"3", 51>>, <<"4", 52>>,
      <<"5", 53>>, <<"6", 54>>, <<"7", 55>>, <<"8", 56>>, <<"9", 57>> }

\* ord(ch)
Ord(ch) == (CHOOSE p \in Ascii : p[1] = ch)[2]

\* the code points of a sequence of ASCII characters
Codes(chars) == [i \in 1..Len(chars) |-> Ord(chars[i])]

\* the code point of digit zero of every decimal-digit script of Unicode 14;
\* the digits 0..9 of a script are the ten code points from its zero
DecimalZeros ==
    {
      48, 1632, 1776, 1984, 2406, 2534, 2662, 2790,
      2918, 3046, 3174, 3302, 3430, 3558, 3664, 3792,
      3872, 4160, 4240, 6112, 6160, 6470, 6608, 6784,
      6800, 6992, 7088, 7232, 7248, 42528, 43216, 43264,
      43472, 43504, 43600, 44016, 65296, 66720, 68912, 69734,
      69872, 69942, 70096, 70384, 70736, 70864, 71248, 71360,
      71472, 71904, 72016, 72784, 73040, 73120, 92768, 92864,
      93008, 120782, 120792, 120802, 120812, 120822, 123200, 123632,
      125264, 130032 }

\* \d
IsDigit(c) == \E z \in DecimalZeros : c >= z /\ c <= z + 9

\* int(c) of one decimal digit
DigitVal(c) == c - (CHOOSE z \in DecimalZeros : c >= z /\ c <= z + 9)

Hyphen == Ord("-")
Space == Ord(" ")
Zero == Ord("0")
One == Ord("1")
Two == Ord("2")
Three == Ord("3")
Nine == Ord("9")

\* [lo-hi] of ASCII digits
InClass(c, lo, hi) == c >= lo /\ c <= hi

\* the code point at position i, -1 past the end
CharAt(s, i) == IF i \in 1..Len(s) THEN s[i] ELSE -1

\* [len, val] of the month directive at position i, len = 0 when none matches
MonthAt(s, i) ==
    LET a == CharAt(s, i)
        b == CharAt(s, i + 1)
    IN  IF a = One /\ InClass(b, Zero, Two) THEN [len |-> 2, val |-> 10 + DigitVal(b)]
        ELSE IF a = Zero /\ InClass(b, One, Nine) THEN [len |-> 2, val |-> DigitVal(b)]
        ELSE IF InClass(a, One, Nine) THEN [len |-> 1, val |-> DigitVal(a)]
        ELSE [len |-> 0, val |-> 0]

\* [len, val] of the day directive at position i, len = 0 when none matches
DayAt(s, i) ==
    LET a == CharAt(s, i)
        b == CharAt(s, i + 1)
    IN  IF a = Three /\ InClass(b, Zero, One) THEN [len |-> 2, val |-> 30 + DigitVal(b)]
        ELSE IF InClass(a, One, Two) /\ IsDigit(b)
        THEN [len |-> 2, val |-> 10 * DigitVal(a) + DigitVal(b)]
        ELSE IF a = Zero /\ InClass(b, One, Nine) THEN [len |-> 2, val |-> DigitVal(b)]
        ELSE IF InClass(a, One, Nine) THEN [len |-> 1, val |-> DigitVal(a)]
        ELSE IF a = Space /\ InClass(b, One, Nine) THEN [len |-> 2, val |-> DigitVal(b)]
        ELSE [len |-> 0, val |-> 0]

Failed == [ok |-> FALSE, date |-> <<0, 0, 0>>]

Strptime(s) ==
    IF ~(\A i \in 1..4 : IsDigit(CharAt(s, i))) \/ CharAt(s, 5) # Hyphen THEN Failed
    ELSE
      LET y == 1000 * DigitVal(s[1]) + 100 * DigitVal(s[2]) + 10 * DigitVal(s[3]) + DigitVal(s[4])
          mo == MonthAt(s, 6)
      IN  IF mo.len = 0 \/ CharAt(s, 6 + mo.len) # Hyphen THEN Failed
          ELSE
            LET da == DayAt(s, 7 + mo.len)
            IN  IF da.len = 0 \/ 6 + mo.len + da.len # Len(s) THEN Failed
                ELSE IF y < 1 \/ da.val > DaysInMonth(y, mo.val) THEN Failed
                ELSE [ok |-> TRUE, date |-> <<y, mo.val, da.val>>]

PastIfEarlierYear(request_date, now_date) == request_date[1] < now_date[1]

\* request_date < today
IsPast(request_date, now_date) == DateLT(request_date, now_date)

-----------------------------------------------------------------------------
(* generate_slots_for_date *)

RECURSIVE SlotLoopLE(_, _, _)
SlotLoopLE(current, end_time, slots) ==
    IF ~DateTimeLT(end_time, current)
    THEN LET slot_end == AddMinutes(current, SLOT_DURATION_MINUTES)
         IN  SlotLoopLE(slot_end, end_time,
                        Append(slots, [start |-> Strftime(current), end |-> Strftime(slot_end)]))
    ELSE slots

RECURSIVE SlotLoop(_, _, _)
SlotLoop(current, end_time, slots) ==
    IF DateTimeLT(current, end_time)
    THEN LET slot_end == AddMinutes(current, SLOT_DURATION_MINUTES)
         IN  SlotLoop(slot_end, end_time,
                      Append(slots, [start |-> Strftime(current), end |-> Strftime(slot_end)]))
    ELSE slots

generate_slots_for_date(date) ==
    SlotLoop(Combine(date, CLINIC_HOURS_START), Combine(date, CLINIC_HOURS_END), <<>>)

-----------------------------------------------------------------------------
(* Requests the model issues *)

Workers == {"w1", "w2"}

\* DoctorCreate bodies; the first and the last carry the same email
Payloads ==
    { [name |-> "Ann", email |-> "ann@clinic.org", phone |-> "555-0101",
       department |-> "Cardiology", specialization |-> "Heart"],
      [name |-> "Bob", email |-> "bob@clinic.org", phone |-> "555-0102",
       department |-> "Cardiology", specialization |-> "Surgery"],
      [name |-> "Cyd", email |-> "cyd@clinic.org", phone |-> "555-0103",
       department |-> "Neurology", specialization |-> "Heart"],
      [name |-> "Ann B", email |-> "ann@clinic.org", phone |-> "555-0104",
       department |-> "Neurology", specialization |-> "Surgery"] }

\* Optional[str] query parameters: <<>> is None, <<v>> is the string v;
\* the (department, specialization) pairs of the list requests
Filters ==
    { <<<<>>, <<>>>>, <<<<"">>, <<>>>>, <<<<"Cardiology">>, <<>>>>,
      <<<<>>, <<"Heart">>>>, <<<<"Cardiology">>, <<"Heart">>>> }

\* the (skip, limit) pairs of the list requests
Pages == {<<0, LimitMax>>, <<0, LimitMin>>, <<1, LimitMin>>}

\* the last id is never the id of a stored doctor
DoctorIds == 1..(MaxDoctors + 1)
AvailabilityIds == {1, MaxDoctors + 1}

\* the days the server clock passes through
Epoch == <<2025, 6, 9>>
ServerDays == {Epoch, NextDay(Epoch)}

\* values of the "date" query parameter, as sequences of code points; the
\* last one is 2025-06-08 with the year in Arabic-Indic digits
DateStrings ==
    { Codes(<<"2", "0", "2", "5", "-", "0", "6", "-", "1", "0">>),
      Codes(<<"2", "0", "2", "5", "-", "0", "6", "-", "0", "8">>),
      Codes(<<"2", "0", "2", "5", "-", "0", "2", "-", "2", "9">>),
      Codes(<<"2", "0", "2", "5", "-", "0", "6", "-", "1", "0", "T">>),
      <<1634, 1632, 1634, 1637>> \o Codes(<<"-", "0", "6", "-", "0", "8">>) }

-----------------------------------------------------------------------------
(* The doctors table (models.py) and the queries app.py runs on it *)

RECURSIVE MaxDoctorId(_)
MaxDoctorId(rows) ==
    IF rows = <<>> THEN 0
    ELSE LET m == MaxDoctorId(Tail(rows))
         IN  IF Head(rows).doctor_id > m THEN Head(rows).doctor_id ELSE m

ReusedDoctorId(rows) == IF rows = <<>> THEN 1 ELSE MaxDoctorId(rows)

\* doctor_id = Column(Integer, primary_key=True): the store generates the key
NextDoctorId(rows) == MaxDoctorId(rows) + 1

NoUniqueViolation(rows, doctor) == FALSE

\* email = Column(String, nullable=False, unique=True): the INSERT is refused
UniqueViolation(rows, doctor) ==
    \E i \in 1..Len(rows) : rows[i].email = doctor.email

\* Doctor(**doctor.dict()) as flushed: generated key, server-default created_at
NewRow(rows, doctor, now) ==
    [doctor_id |-> NextDoctorId(rows), name |-> doctor.name, email |-> doctor.email,
     phone |-> doctor.phone, department |-> doctor.department,
     specialization |-> doctor.specialization, created_at |-> now]

UpsertRow(rows, row) ==
    IF rows = <<>> THEN <<row>> ELSE [rows EXCEPT ![Len(rows)] = row]

\* db.add(db_doctor); db.commit()
InsertRow(rows, row) == Append(rows, row)

\* db.query(Doctor).filter(Doctor.email == email).first(): <<>> is None
FirstByEmail(rows, email) ==
    LET Test(r) == r.email = email
        found == SelectSeq(rows, Test)
    IN  IF found = <<>> THEN <<>> ELSE <<Head(found)>>

FirstByIdOrDefault(rows, id) ==
    LET Test(r) == r.doctor_id = id
        found == SelectSeq(rows, Test)
    IN  IF found # <<>> THEN <<Head(found)>>
        ELSE IF rows # <<>> THEN <<Head(rows)>> ELSE <<>>

\* db.query(Doctor).filter(Doctor.doctor_id == id).first(): <<>> is None
FirstById(rows, id) ==
    LET Test(r) == r.doctor_id = id
        found == SelectSeq(rows, Test)
    IN  IF found = <<>> THEN <<>> ELSE <<Head(found)>>

\* truth value of an Optional[str]: None and "" are both false
Truthy(opt) == opt # <<>> /\ opt[1] # ""

FilterRowsDeptOnly(rows, department, specialization) ==
    LET Test(r) == Truthy(department) => r.department = department[1]
    IN  SelectSeq(rows, Test)

\* the two conditional query.filter(...) calls of get_doctors
FilterRows(rows, department, specialization) ==
    LET Test(r) == /\ Truthy(department) => r.department = department[1]
                   /\ Truthy(specialization) => r.specialization = specialization[1]
    IN  SelectSeq(rows, Test)

\* query.offset(skip).limit(limit).all()
OffsetLimit(rows, skip, limit) ==
    SubSeq(rows, skip + 1, IF skip + limit < Len(rows) THEN skip + limit ELSE Len(rows))

-----------------------------------------------------------------------------
(* HTTP responses *)

Response(op, req, status, body) ==
    [op |-> op, req |-> req, status |-> status, body |-> body]

\* raise HTTPException(status_code, detail)
HTTPException(op, req, status, detail) ==
    Response(op, req, status, [detail |-> detail])

\* an exception no handler catches: the framework answers 500
ServerError(op, req) ==
    Response(op, req, 500, [detail |-> "Internal Server Error"])

-----------------------------------------------------------------------------
(* Initial state: empty table, no request in progress *)

Init ==
    /\ store = <<>>
    /\ session = [w \in Workers |-> <<>>]
    /\ today = Epoch
    /\ last = Response("none", <<>>, 0, <<>>)

\* requests that passed the email check and have not committed
InFlight == Cardinality({w \in Workers : Len(session[w]) = 1})

-----------------------------------------------------------------------------
(* POST /v1/doctors.  First statement: the SELECT for an existing email.    *)
(* Either the handler raises 400 and the request is over, or db_doctor is  *)
(* built and the worker goes on to the commit.                             *)

create_doctor_unchecked(w, doctor) ==
    /\ session[w] = <<>>
    /\ Len(store) + InFlight < MaxDoctors
    /\ session' = [session EXCEPT ![w] = <<doctor>>]
    /\ UNCHANGED <<store, today, last>>

create_doctor(w, doctor) ==
    /\ session[w] = <<>>
    /\ LET existing == FirstByEmail(store, doctor.email)
       IN  IF existing # <<>>
           THEN /\ last' = HTTPException("create_doctor", doctor, 400,
                                         "Doctor with this email already exists")
                /\ UNCHANGED <<store, session, today>>
           ELSE /\ Len(store) + InFlight < MaxDoctors
                /\ session' = [session EXCEPT ![w] = <<doctor>>]
                /\ UNCHANGED <<store, today, last>>

(* db.add(db_doctor); db.commit().  The unique index on email refuses the  *)
(* INSERT when another request has committed the same email since this     *)
(* request's SELECT; the handler does not catch the exception.  Otherwise  *)
(* the row is in the table from here on, before the request is answered.   *)
create_doctor_commit(w) ==
    /\ Len(session[w]) = 1
    /\ LET doctor == session[w][1]
       IN  IF UniqueViolation(store, doctor)
           THEN /\ last' = ServerError("create_doctor", doctor)
                /\ session' = [session EXCEPT ![w] = <<>>]
                /\ UNCHANGED store
           ELSE LET db_doctor == NewRow(store, doctor, today)
                IN  /\ store' = InsertRow(store, db_doctor)
                    /\ session' = [session EXCEPT ![w] = <<doctor, db_doctor.doctor_id>>]
                    /\ UNCHANGED last
    /\ UNCHANGED today

(* db.refresh(db_doctor); return db_doctor: the row is read back by its    *)
(* primary key and answered 201.  refresh raises when the row is gone,     *)
(* which no handler of this service can cause.                             *)
create_doctor_refresh(w) ==
    /\ Len(session[w]) = 2
    /\ LET doctor == session[w][1]
           db_doctor == FirstById(store, session[w][2])
       IN  IF db_doctor = <<>>
           THEN last' = ServerError("create_doctor", doctor)
           ELSE last' = Response("create_doctor", doctor, 201, db_doctor[1])
    /\ session' = [session EXCEPT ![w] = <<>>]
    /\ UNCHANGED <<store, today>>

(* GET /v1/doctors *)
get_doctors(skip, limit, department, specialization) ==
    /\ LET query == FilterRows(store, department, specialization)
           doctors == OffsetLimit(query, skip, limit)
       IN  last' = Response("get_doctors",
                            [skip |-> skip, limit |-> limit, department |-> department,
                             specialization |-> specialization],
                            200, doctors)
    /\ UNCHANGED <<store, session, today>>

(* GET /v1/doctors/{doctor_id} *)
get_doctor(doctor_id) ==
    /\ LET doctor == FirstById(store, doctor_id)
       IN  IF doctor = <<>>
           THEN last' = HTTPException("get_doctor", doctor_id, 404, "Doctor not found")
           ELSE last' = Response("get_doctor", doctor_id, 200, doctor[1])
    /\ UNCHANGED <<store, session, today>>

(* GET /v1/doctors/{doctor_id}/availability: the handler's answer, given    *)
(* the row the first query found (<<>> is None), the outcome of            *)
(* datetime.strptime(date, "%Y-%m-%d") and datetime.now().date().  A       *)
(* ValueError of strptime is caught nowhere.                               *)
availability_response(doctor_id, date, doctor, parsed, now_date) ==
    LET req == [doctor_id |-> doctor_id, date |-> date]
    IN  IF doctor = <<>>
        THEN HTTPException("check_availability", req, 404, "Doctor not found")
        ELSE IF ~parsed.ok
        THEN ServerError("check_availability", req)
        ELSE IF IsPast(parsed.date, now_date)
        THEN HTTPException("check_availability", req, 400, "Cannot book in the past")
        ELSE Response("check_availability", req, 200,
                      [doctor_id |-> doctor_id, date |-> date,
                       available_slots |-> generate_slots_for_date(parsed.date),
                       clinic_hours |->
                           [start |-> ToString(CLINIC_HOURS_START) \o ":00",
                            end |-> ToString(CLINIC_HOURS_END) \o ":00"]])

check_availability(doctor_id, date) ==
    /\ last' = availability_response(doctor_id, date, FirstById(store, doctor_id),
                                     Strptime(date), today)
    /\ UNCHANGED <<store, session, today>>

(* GET /v1/doctors/{doctor_id}/department *)
get_doctor_department(doctor_id) ==
    /\ LET doctor == FirstById(store, doctor_id)
       IN  IF doctor = <<>>
           THEN last' = HTTPException("get_doctor_department", doctor_id, 404, "Doctor not found")
           ELSE last' = Response("get_doctor_department", doctor_id, 200,
                                 [doctor_id |-> doctor_id, department |-> doctor[1].department])
    /\ UNCHANGED <<store, session, today>>

(* midnight passes on the server *)
Tick ==
    /\ NextDay(today) \in ServerDays
    /\ today' = NextDay(today)
    /\ UNCHANGED <<store, session, last>>

Next ==
    \/ \E w \in Workers, doctor \in Payloads : create_doctor(w, doctor)
    \/ \E w \in Workers : create_doctor_commit(w)
    \/ \E w \in Workers : create_doctor_refresh(w)
    \/ \E page \in Pages, filter \in Filters :
            get_doctors(page[1], page[2], filter[1], filter[2])
    \/ \E doctor_id \in DoctorIds : get_doctor(doctor_id)
    \/ \E doctor_id \in AvailabilityIds, date \in DateStrings :
            check_availability(doctor_id, date)
    \/ \E doctor_id \in DoctorIds : get_doctor_department(doctor_id)
    \/ Tick

Spec == Init /\ [][Next]_vars

-----------------------------------------------------------------------------
(* Vocabulary of the properties *)

EmailStored(rows, email) == \E i \in 1..Len(rows) : rows[i].email = email

IdStored(rows, id) == \E i \in 1..Len(rows) : rows[i].doctor_id = id

ConflictBody == [detail |-> "Doctor with this email already exists"]

NotFoundBody == [detail |-> "Doctor not found"]

\* A request handler other than create_doctor changes `last` and nothing
\* else, and writes its own name to last.op: a step that changes `last` to a
\* response of handler op is a step of that handler, for the request last'.req.
Answers(op) == last' # last /\ last'.op = op

AvailabilityStep == Answers("check_availability")

ListStep == Answers("get_doctors")

\* when an Optional[str] filter restricts its field: whenever it is supplied,
\* or only when it is supplied and not the empty string
IsGiven(opt) == opt # <<>>

IsGivenNonEmpty(opt) == opt # <<>> /\ opt[1] # ""

Restricts(opt, emptyIsNone) == IF emptyIsNone THEN IsGivenNonEmpty(opt) ELSE IsGiven(opt)

\* positions of the rows that a pair of filters selects
MatchingPositions(rows, department, specialization, emptyIsNone) ==
    {i \in 1..Len(rows) :
        /\ Restricts(department, emptyIsNone) => rows[i].department = department[1]
        /\ Restricts(specialization, emptyIsNone)
              => rows[i].specialization = specialization[1]}

\* page is rows at the positions skip+1 .. skip+limit of idx, in order
IsPageOf(page, rows, idx, skip, limit) ==
    LET n == Cardinality(idx)
        len == IF n <= skip THEN 0 ELSE IF n - skip < limit THEN n - skip ELSE limit
    IN  /\ Len(page) = len
        /\ \A k \in 1..len :
              \E i \in idx : /\ Cardinality({j \in idx : j <= i}) = skip + k
                             /\ page[k] = rows[i]

-----------------------------------------------------------------------------
\* C1: a Create whose email is already the email of a stored doctor is
\* answered 400 "Doctor with this email already exists" and the table is
\* the same after it as before.
C1_DuplicateEmailRejected ==
    [][\A w \in Workers, doctor \in Payloads :
          (create_doctor(w, doctor) /\ EmailStored(store, doctor.email))
              => /\ last' = Response("create_doctor", doctor, 400, ConflictBody)
                 /\ store' = store]_vars

C1_Witness ==
    /\ last.op = "create_doctor"
    /\ last.status = 400
    /\ EmailStored(store, last.req.email)

\* C2: in every reachable state no two rows of the table share an email,
\* whatever the interleaving of the Create requests.
C2_UniqueEmails ==
    \A i, j \in 1..Len(store) : store[i].email = store[j].email => i = j

\* two requests raced on one email and the table kept one row for it
C2_Witness ==
    /\ last.op = "create_doctor"
    /\ last.status = 500
    /\ Cardinality({i \in 1..Len(store) : store[i].email = last.req.email}) = 1

IsPastDate(parsed, now_date) == parsed.ok /\ DateLT(parsed.date, now_date)

PastDateIs400(response, parsed, now_date) ==
    IsPastDate(parsed, now_date) => response.status = 400

PastDateIs400Or404(response, parsed, now_date, stored) ==
    IsPastDate(parsed, now_date)
        => IF stored
           THEN response.status = 400 /\ response.body = [detail |-> "Cannot book in the past"]
           ELSE response.status = 404 /\ response.body = NotFoundBody

\* C3, as stated: a parsable date before the server's date is answered 400
\* whether or not the doctor id names a stored doctor.
C3_Original ==
    [][AvailabilityStep => PastDateIs400(last', Strptime(last'.req.date), today)]_vars

\* C3, amended: for a stored doctor a parsable date before the server's date
\* is answered 400 "Cannot book in the past"; when the id names no stored
\* doctor the answer is 404 "Doctor not found", the date notwithstanding.
C3_PastDateRejected ==
    [][AvailabilityStep
          => PastDateIs400Or404(last', Strptime(last'.req.date), today,
                                IdStored(store, last'.req.doctor_id))]_vars

C3_Witness ==
    /\ last.op = "check_availability"
    /\ last.status = 400
    /\ IdStored(store, last.req.doctor_id)
    /\ IsPastDate(Strptime(last.req.date), today)

\* C4: for a stored doctor, a date that does not parse as YYYY-MM-DD is
\* answered 400 and nothing else.
C4_UnparsableDateIs400 ==
    [][(AvailabilityStep /\ IdStored(store, last'.req.doctor_id)
          /\ ~Strptime(last'.req.date).ok)
          => last'.status = 400]_vars

\* slot i of the day d starts 09:00 + 30(i-1) minutes and ends 30 minutes later
SlotsAsClaimed(slots, d) ==
    /\ Len(slots) = 18
    /\ \A i \in 1..Len(slots) :
          /\ slots[i].start = Strftime([date |-> d, minute |-> 540 + 30 * (i - 1)])
          /\ slots[i].end = Strftime([date |-> d, minute |-> 540 + 30 * i])
    /\ \A i \in 1..(Len(slots) - 1) : slots[i + 1].start = slots[i].end
    /\ d = <<2025, 6, 10>> =>
          /\ slots[1] = [start |-> "2025-06-10T09:00:00", end |-> "2025-06-10T09:30:00"]
          /\ slots[Len(slots)] = [start |-> "2025-06-10T17:30:00", end |-> "2025-06-10T18:00:00"]

AnsweredWithSlots(response, parsed, now_date) ==
    (parsed.ok /\ ~DateLT(parsed.date, now_date))
        => /\ response.status = 200
           /\ SlotsAsClaimed(response.body.available_slots, parsed.date)

\* C5: for a stored doctor and a date not before the server's date the
\* answer is 200 with exactly 18 slots: slot i starts 09:00 + 30(i-1) min
\* and ends 30 minutes later, so the first is 09:00-09:30, the last
\* 17:30-18:00, and each slot starts where the previous one ends.
C5_EighteenSlots ==
    [][(AvailabilityStep /\ IdStored(store, last'.req.doctor_id))
          => AnsweredWithSlots(last', Strptime(last'.req.date), today)]_vars

C5_Witness ==
    /\ last.op = "check_availability"
    /\ last.status = 200
    /\ Strptime(last.req.date).date = <<2025, 6, 10>>
    /\ Len(last.body.available_slots) > 0

\* C6, as stated: List returns positions skip .. skip+limit-1 of the rows,
\* in insertion order, whose department and specialization equal every
\* filter that is supplied; only a filter that is not supplied places no
\* restriction.
C6_Original ==
    [][ListStep
          => IsPageOf(last'.body, store,
                      MatchingPositions(store, last'.req.department,
                                        last'.req.specialization, FALSE),
                      last'.req.skip, last'.req.limit)]_vars

\* C6, amended: the same, where a filter that is not supplied or is
\* supplied as the empty string places no restriction on its field.
C6_ListFiltersAndPages ==
    [][ListStep
          => IsPageOf(last'.body, store,
                      MatchingPositions(store, last'.req.department,
                                        last'.req.specialization, TRUE),
                      last'.req.skip, last'.req.limit)]_vars

\* both filters restrict, and the page leaves out a stored row
C6_Witness ==
    /\ last.op = "get_doctors"
    /\ IsGivenNonEmpty(last.req.department)
    /\ IsGivenNonEmpty(last.req.specialization)
    /\ Len(last.body) = 1
    /\ Len(store) = 2

\* C7: no two stored doctors share a doctor_id, and the doctor_id a
\* successful Create returns belongs to the row it stored and to no other.
C7_FreshDoctorId ==
    /\ \A i, j \in 1..Len(store) : store[i].doctor_id = store[j].doctor_id => i = j
    /\ (last.op = "create_doctor" /\ last.status = 201)
          => /\ Cardinality({i \in 1..Len(store) : store[i].doctor_id = last.body.doctor_id}) = 1
             /\ \E i \in 1..Len(store) : store[i] = last.body

\* a Create is answered 201 after a later Create has stored its own row
C7_Witness ==
    /\ last.op = "create_doctor"
    /\ last.status = 201
    /\ Len(store) = 2
    /\ last.body = store[1]

\* C8: GetByID and GetDepartment answer 404 "Doctor not found" when no
\* stored doctor has the id, and otherwise 200 with that doctor's stored
\* fields (GetDepartment: its id and stored department).
C8_LookupById ==
    [][/\ Answers("get_doctor")
            => IF IdStored(store, last'.req)
               THEN /\ last'.status = 200
                    /\ last'.body.doctor_id = last'.req
                    /\ \E i \in 1..Len(store) : store[i] = last'.body
               ELSE last'.status = 404 /\ last'.body = NotFoundBody
       /\ Answers("get_doctor_department")
            => IF IdStored(store, last'.req)
               THEN /\ last'.status = 200
                    /\ \E i \in 1..Len(store) :
                          /\ store[i].doctor_id = last'.req
                          /\ last'.body = [doctor_id |-> last'.req,
                                           department |-> store[i].department]
               ELSE last'.status = 404 /\ last'.body = NotFoundBody]_vars

C8_Witness ==
    /\ last.op = "get_doctor_department"
    /\ last.status = 200
    /\ last.req = 2

\* C9: every step keeps every stored row as it is, in place; the reads, a
\* Create that is rejected at its email check or at its commit, and the
\* answering of a Create leave the table unchanged; the commit of a Create
\* that succeeds appends exactly one row, built from the request, and that
\* Create is answered 201 with a stored row.
C9_StoreOnlyGrows ==
    [][/\ Len(store') >= Len(store)
       /\ \A i \in 1..Len(store) : store'[i] = store[i]
       /\ (ListStep \/ AvailabilityStep
             \/ Answers("get_doctor")
             \/ Answers("get_doctor_department"))
            => store' = store
       /\ \A w \in Workers :
            /\ (\E doctor \in Payloads : create_doctor(w, doctor)) => store' = store
            /\ create_doctor_commit(w) =>
                  IF Len(session'[w]) = 2
                  THEN /\ Len(store') = Len(store) + 1
                       /\ store'[Len(store')].doctor_id = session'[w][2]
                       /\ store'[Len(store')].email = session[w][1].email
                  ELSE store' = store /\ last'.status # 201
            /\ create_doctor_refresh(w) =>
                  /\ store' = store
                  /\ last'.status = 201
                  /\ \E i \in 1..Len(store) : store[i] = last'.body]_vars

\* a second doctor has been stored after the first
C9_Witness ==
    /\ Len(store) = 2
    /\ last.op = "create_doctor"
    /\ last.status = 201

\* C10: a Create that passed its email check, and finds at its commit that
\* another Create has stored the same email meanwhile, is answered 400
\* "Doctor with this email already exists"; one row holds the email.
C10_RaceLoserIs400 ==
    [][\A w \in Workers :
          (/\ Len(session[w]) = 1
           /\ EmailStored(store, session[w][1].email)
           /\ create_doctor_commit(w))
              => /\ last'.status = 400
                 /\ last'.body = ConflictBody
                 /\ Cardinality({i \in 1..Len(store') :
                                    store'[i].email = last'.req.email}) = 1]_vars

====
